---- MODULE Spec2Model ----
(***************************************************************************)
(* Model of go/gateway/npm.go: the npm gateway that resolves a package     *)
(* name and a version constraint against the registry's metadata and       *)
(* downloads the resolved tarball into a temp file.                        *)
(*                                                                         *)
(* Version strings are modelled by their lexical structure: an optional    *)
(* "v" prefix, the dotted numeric segments as written, an optional         *)
(* pre-release tag, optional build metadata, and a flag for text that the  *)
(* version grammar rejects.  The operators NewVersion, String, Compare,    *)
(* NewConstraint and constraintPessimistic follow hashicorp/go-version,    *)
(* which npm.go calls.                                                     *)
(***************************************************************************)
EXTENDS Integers, Sequences, FiniteSets, TLC

VARIABLES
    registryURL,          \* NpmGatewayConfig.RegistryURL, as configured
    url,                  \* npmGateway.url
    registry,             \* the "versions" object the registry serves
    pc,                   \* position of DownloadPackage: idle, found, returned
    name,                 \* argument name of the current call
    packageVersion,       \* argument version of the current call
    requests,             \* requests handed to httpClient.Do in the current call
    npmPackgeInfo,        \* the decoded metadata document of the current call
    latestPackageVersion, \* local of findPackageVersionTar
    checks,               \* the versions the constraint was checked against
    tarUrl,               \* result of findPackageVersionTar
    findErr,              \* error of findPackageVersionTar
    tempCreated,          \* ioutil.TempFile created a file in the current call
    packageTarFile,       \* result of DownloadPackage
    err                   \* error of DownloadPackage

vars == <<registryURL, url, registry, pc, name, packageVersion, requests,
          npmPackgeInfo, latestPackageVersion, checks, tarUrl, findErr,
          tempCreated, packageTarFile, err>>

----------------------------------------------------------------------------
(* Bounds *)

\* the metadata mapping holds at most MaxKeys versions
MaxKeys == 2

----------------------------------------------------------------------------
(* Strings and values *)

Nil == "nil"
NoFile == "nil"
TempFile == "tempfile.tar"

\* a version string: ["v"] segs joined by "." ["-" pre] ["+" meta] [junk]
VersionText(pfx, segs, pre, meta, junk) ==
    [pfx |-> pfx, segs |-> segs, pre |-> pre, meta |-> meta, junk |-> junk]

Plain(segs) == VersionText(FALSE, segs, "", "", FALSE)

\* the empty string
EmptyString == VersionText(FALSE, <<>>, "", "", FALSE)

\* a string such as "not-a-version"
NotAVersion == VersionText(FALSE, <<>>, "", "", TRUE)

\* the values of the segments written in published versions and constraints
SegVals == {1, 2}

\* two-component and three-component version numbers
SegSeqs ==
    {<<a, b>> : a \in SegVals, b \in SegVals}
    \cup {<<a, b, c>> : a \in SegVals, b \in SegVals, c \in SegVals}

\* the version number that is also published in decorated spellings
DecorBases == {<<1, 2, 1>>}

Decorated(segs) ==
    { VersionText(TRUE, segs, "", "", FALSE),
      VersionText(FALSE, segs, "beta", "", FALSE),
      VersionText(FALSE, segs, "", "a", FALSE),
      VersionText(FALSE, segs, "", "b", FALSE) }

\* the strings that may appear as keys of the "versions" object
KeyUniverse ==
    {Plain(s) : s \in SegSeqs}
    \cup UNION {Decorated(s) : s \in DecorBases}
    \cup {NotAVersion}

\* the strings a caller may pass as version
ConstraintUniverse ==
    {Plain(s) : s \in SegSeqs}
    \cup {VersionText(FALSE, <<1, 2, 1>>, "beta", "", FALSE), EmptyString, NotAVersion}

Names == {"pkg"}

Authorization == "token"

URL(scheme, host, path) == [scheme |-> scheme, host |-> host, path |-> path]

RegistryURLs ==
    { URL("http", "registry", <<>>), URL("https", "registry", <<"npm">>) }

\* NpmDistInfo.Tarball of a published version: a location of its own
Tarball(key) == [host |-> "tarballs", key |-> key]

EmptyTarball == [host |-> "", key |-> EmptyString]

\* NpmPackageInfo
PackageInfo(decoded, versions) == [decoded |-> decoded, Versions |-> versions]

NoPackageInfo == PackageInfo(FALSE, <<>>)

Registries ==
    { [k \in ks |-> [Dist |-> [Tarball |-> Tarball(k)]]] :
        ks \in {s \in SUBSET KeyUniverse : Cardinality(s) <= MaxKeys} }

----------------------------------------------------------------------------
(* go-version, as called by findPackageVersionTar *)

Max(a, b) == IF a >= b THEN a ELSE b

\* version.NewVersion returns an error: the text does not match the grammar
NewVersionFails(text) == text.junk \/ Len(text.segs) = 0

Pad3(segs) ==
    segs \o [i \in 1..(Max(3, Len(segs)) - Len(segs)) |-> 0]

\* version.NewVersion: segments padded with zeros to three, si the number written
NewVersion(text) ==
    [segments |-> Pad3(text.segs), si |-> Len(text.segs),
     pre |-> text.pre, metadata |-> text.meta, original |-> text]

\* Version.String: the segments, "-" pre, "+" metadata; prefix and short forms are lost
String(v) == VersionText(FALSE, v.segments, v.pre, v.metadata, FALSE)

allZero(segs) == \A i \in 1..Len(segs) : segs[i] = 0

\* order of the pre-release identifiers of the model
PreRank(p) == CASE p = "alpha" -> 1 [] p = "beta" -> 2 [] OTHER -> 3

comparePrereleases(p, q) ==
    IF p = q THEN 0 ELSE IF PreRank(p) < PreRank(q) THEN -1 ELSE 1

RECURSIVE compareSegments(_, _, _)
compareSegments(self, other, i) ==
    IF i > Max(Len(self), Len(other)) THEN 0
    ELSE IF i > Len(self)
         THEN (IF ~allZero(SubSeq(other, i, Len(other))) THEN -1 ELSE 0)
    ELSE IF i > Len(other)
         THEN (IF ~allZero(SubSeq(self, i, Len(self))) THEN 1 ELSE 0)
    ELSE IF self[i] = other[i] THEN compareSegments(self, other, i + 1)
    ELSE IF self[i] < other[i] THEN -1
    ELSE 1

\* Version.Compare
Compare(v, other) ==
    IF String(v) = String(other) THEN 0
    ELSE IF v.segments = other.segments
         THEN (IF v.pre = "" /\ other.pre = "" THEN 0
               ELSE IF v.pre = "" THEN 1
               ELSE IF other.pre = "" THEN -1
               ELSE comparePrereleases(v.pre, other.pre))
    ELSE compareSegments(v.segments, other.segments, 1)

LessThan(v, other) == Compare(v, other) < 0

prereleaseCheck(v, c) ==
    IF c.pre # "" /\ v.pre # "" THEN v.segments = c.segments
    ELSE IF c.pre = "" /\ v.pre # "" THEN FALSE
    ELSE TRUE

\* the faulty variants of constraintPessimistic
constraintPessimistic_anySeries(v, c) ==
    /\ prereleaseCheck(v, c) /\ ~(c.pre # "" /\ v.pre = "")
    /\ ~LessThan(v, c)

constraintPessimistic_allSegments(v, c) ==
    /\ prereleaseCheck(v, c) /\ ~(c.pre # "" /\ v.pre = "")
    /\ ~LessThan(v, c)
    /\ Len(c.segments) <= Len(v.segments)
    /\ \A i \in 1..c.si : v.segments[i] = c.segments[i]
    /\ c.segments[Len(c.segments)] <= v.segments[Len(c.segments)]

\* the "~>" operator
constraintPessimistic(v, c) ==
    /\ prereleaseCheck(v, c) /\ ~(c.pre # "" /\ v.pre = "")
    /\ ~LessThan(v, c)
    /\ Len(c.segments) <= Len(v.segments)
    /\ \A i \in 1..(c.si - 1) : v.segments[i] = c.segments[i]
    /\ c.segments[Len(c.segments)] <= v.segments[Len(c.segments)]

\* version.NewConstraint("~> " + text) returns an error
NewConstraintFails(text) == NewVersionFails(text)

\* version.NewConstraint("~> " + text)
NewConstraint(text) == [op |-> "~>", check |-> NewVersion(text)]

\* Constraints.Check
Check(versionConstraints, v) ==
    constraintPessimistic(v, versionConstraints.check)

----------------------------------------------------------------------------
(* findPackageVersionTar *)

\* the orders in which "for ... range npmPackgeInfo.Versions" may visit the keys
Orders(keys) ==
    { o \in [1..Cardinality(keys) -> keys] :
        \A i, j \in 1..Cardinality(keys) : i # j => o[i] # o[j] }

\* a parse loop that drops the keys it cannot parse
RECURSIVE ParseKeys_skipMalformed(_)
ParseKeys_skipMalformed(order) ==
    IF order = <<>> THEN [failed |-> FALSE, versions |-> <<>>]
    ELSE LET rest == ParseKeys_skipMalformed(Tail(order)) IN
         IF NewVersionFails(Head(order)) THEN rest
         ELSE [failed |-> FALSE,
               versions |-> <<NewVersion(Head(order))>> \o rest.versions]

\* lines 127-134: parse every key in iteration order, return at the first error
RECURSIVE ParseKeys(_)
ParseKeys(order) ==
    IF order = <<>> THEN [failed |-> FALSE, versions |-> <<>>]
    ELSE IF NewVersionFails(Head(order)) THEN [failed |-> TRUE, versions |-> <<>>]
    ELSE LET rest == ParseKeys(Tail(order)) IN
         [failed |-> rest.failed,
          versions |-> IF rest.failed THEN <<>>
                       ELSE <<NewVersion(Head(order))>> \o rest.versions]

\* sort.Reverse(version.Collection).Less(i, j) is Collection.Less(j, i)
ReverseLess(a, b) == LessThan(b, a)

\* sort.Sort sorts a short slice by insertion, which keeps equal
\* elements in the order the map iteration produced them; a longer slice is
\* sorted unstably, which yields no order of equal elements that some
\* iteration order does not yield here.
\* insertionSort's inner loop: the new element moves left past every
\* element it is Less than
RECURSIVE Insert(_, _)
Insert(sorted, x) ==
    IF sorted = <<>> THEN <<x>>
    ELSE LET last == sorted[Len(sorted)] IN
         IF ReverseLess(x, last)
         THEN Insert(SubSeq(sorted, 1, Len(sorted) - 1), x) \o <<last>>
         ELSE sorted \o <<x>>

RECURSIVE InsertionSort(_)
InsertionSort(s) ==
    IF s = <<>> THEN <<>>
    ELSE Insert(InsertionSort(SubSeq(s, 1, Len(s) - 1)), s[Len(s)])

\* a sort call that leaves the slice as it is
SortReverse_unsorted(versions) == versions

\* line 136: sort.Sort(sort.Reverse(version.Collection(versions)))
SortReverse(versions) == InsertionSort(versions)

\* lines 143-149: the first version of the slice that satisfies the constraint
RECURSIVE Walk(_, _)
Walk(versions, versionConstraints) ==
    IF versions = <<>> THEN [latest |-> EmptyString, checks |-> {}]
    ELSE IF Check(versionConstraints, Head(versions))
         THEN [latest |-> String(Head(versions)),
               checks |-> {[version |-> Head(versions), ok |-> TRUE]}]
    ELSE LET rest == Walk(Tail(versions), versionConstraints) IN
         [latest |-> rest.latest,
          checks |-> rest.checks \cup {[version |-> Head(versions), ok |-> FALSE]}]

\* a resolver without the check for an empty result
NotFound_unchecked(latest) == FALSE

\* line 151: latestPackageVersion == ""
NotFound(latest) == latest = EmptyString

Result(e, url_, latest, chk) ==
    [err |-> e, tarUrl |-> url_, latest |-> latest, checks |-> chk]

\* lines 122-168: resolution over the decoded document, keys visited in order
Resolve(info, order, version) ==
    LET parsed == ParseKeys(order) IN
    IF parsed.failed THEN Result("MalformedVersion", EmptyTarball, EmptyString, {})
    ELSE IF NewConstraintFails(version)
         THEN Result("MalformedConstraint", EmptyTarball, EmptyString, {})
    ELSE LET walked == Walk(SortReverse(parsed.versions), NewConstraint(version)) IN
         IF NotFound(walked.latest)
         THEN Result("NoMatchingVersion", EmptyTarball, walked.latest, walked.checks)
         ELSE IF walked.latest \notin DOMAIN info.Versions
              THEN Result("VersionNotLocated", EmptyTarball, walked.latest, walked.checks)
         ELSE Result(Nil, info.Versions[walked.latest].Dist.Tarball,
                     walked.latest, walked.checks)

\* lines 51-55: the base URL with its path replaced by the package name
getPackageURL(base, packageName) ==
    URL(base.scheme, base.host, <<packageName>>)

Request(kind, target) ==
    [kind |-> kind, url |-> target, Authorization |-> "Bearer " \o Authorization]

FetchOutcomes == {"ok", "NetworkError", "ResponseReadError", "DecodeError"}

\* lines 85-169
FindPackageVersionTar(n, version) ==
    /\ pc' = "found"
    /\ name' = n
    /\ packageVersion' = version
    /\ requests' = <<Request("metadata", getPackageURL(url, n))>>
    /\ tempCreated' = FALSE
    /\ packageTarFile' = NoFile
    /\ err' = Nil
    /\ \E outcome \in FetchOutcomes :
         IF outcome # "ok"
         THEN /\ npmPackgeInfo' = NoPackageInfo
              /\ latestPackageVersion' = EmptyString
              /\ checks' = {}
              /\ tarUrl' = EmptyTarball
              /\ findErr' = outcome
         ELSE \E order \in Orders(DOMAIN registry) :
                LET info == PackageInfo(TRUE, registry)
                    r == Resolve(info, order, version) IN
                /\ npmPackgeInfo' = info
                /\ latestPackageVersion' = r.latest
                /\ checks' = r.checks
                /\ tarUrl' = r.tarUrl
                /\ findErr' = r.err
    /\ UNCHANGED <<registryURL, url, registry>>

----------------------------------------------------------------------------
(* DownloadPackage and downloadPackageTar *)

\* line 198: a caller invokes DownloadPackage; line 199 runs to its end
DownloadPackage(n, version) ==
    /\ pc = "idle"
    /\ FindPackageVersionTar(n, version)

\* a caller that has its result invokes DownloadPackage again, same arguments
DownloadPackageAgain ==
    /\ pc = "returned"
    /\ FindPackageVersionTar(name, packageVersion)

\* the caller is done with the result; nothing of the call is kept
Forget ==
    /\ pc = "returned"
    /\ pc' = "idle"
    /\ name' = ""
    /\ packageVersion' = EmptyString
    /\ requests' = <<>>
    /\ npmPackgeInfo' = NoPackageInfo
    /\ latestPackageVersion' = EmptyString
    /\ checks' = {}
    /\ tarUrl' = EmptyTarball
    /\ findErr' = Nil
    /\ tempCreated' = FALSE
    /\ packageTarFile' = NoFile
    /\ err' = Nil
    /\ UNCHANGED <<registryURL, url, registry>>

\* an error check that lets every result through
FindFailed_ignored(e) == FALSE

\* line 200: err != nil
FindFailed(e) == e # Nil

\* lines 199-202: findPackageVersionTar failed, its error is returned
DownloadPackageFails ==
    /\ pc = "found"
    /\ FindFailed(findErr)
    /\ pc' = "returned"
    /\ err' = findErr
    /\ UNCHANGED <<registryURL, url, registry, name, packageVersion, requests,
                   npmPackgeInfo, latestPackageVersion, checks, tarUrl, findErr,
                   tempCreated, packageTarFile>>

DownloadOutcomes == {"ok", "NetworkError", "TempStorageError", "StreamCopyError"}

\* lines 171-196 and 204: the named result packageTarFile is assigned by
\* ioutil.TempFile and returned as it is, whatever io.Copy reports
DownloadPackageTar ==
    /\ pc = "found"
    /\ ~FindFailed(findErr)
    /\ pc' = "returned"
    /\ requests' = Append(requests, Request("artifact", tarUrl))
    /\ \E outcome \in DownloadOutcomes :
         /\ tempCreated' = (outcome \in {"ok", "StreamCopyError"})
         /\ packageTarFile' = IF outcome \in {"ok", "StreamCopyError"}
                              THEN TempFile ELSE NoFile
         /\ err' = IF outcome = "ok" THEN Nil ELSE outcome
    /\ UNCHANGED <<registryURL, url, registry, name, packageVersion,
                   npmPackgeInfo, latestPackageVersion, checks, tarUrl, findErr>>

----------------------------------------------------------------------------

\* lines 57-83: the gateway as NewNpmGateway builds it, before any call
Init ==
    /\ registryURL \in RegistryURLs
    /\ url = URL("https", registryURL.host, registryURL.path)
    /\ registry \in Registries
    /\ pc = "idle"
    /\ name = ""
    /\ packageVersion = EmptyString
    /\ requests = <<>>
    /\ npmPackgeInfo = NoPackageInfo
    /\ latestPackageVersion = EmptyString
    /\ checks = {}
    /\ tarUrl = EmptyTarball
    /\ findErr = Nil
    /\ tempCreated = FALSE
    /\ packageTarFile = NoFile
    /\ err = Nil

Next ==
    \/ \E n \in Names, version \in ConstraintUniverse : DownloadPackage(n, version)
    \/ DownloadPackageAgain
    \/ Forget
    \/ DownloadPackageFails
    \/ DownloadPackageTar

Spec == Init /\ [][Next]_vars

----------------------------------------------------------------------------
(* Properties *)

\* the metadata document of the current call was fetched, read and decoded
Fetched == pc \in {"found", "returned"} /\ npmPackgeInfo.decoded

\* findPackageVersionTar returned a tarball URL
Succeeded == Fetched /\ findErr = Nil

Published == DOMAIN npmPackgeInfo.Versions

WellFormed == {k \in Published : ~NewVersionFails(k)}

\* the published keys that satisfy the constraint of the current call
Satisfying ==
    IF NewConstraintFails(packageVersion) THEN {}
    ELSE {k \in WellFormed : Check(NewConstraint(packageVersion), NewVersion(k))}

ArtifactRequests == {i \in 1..Len(requests) : requests[i].kind = "artifact"}

MetadataRequests == {i \in 1..Len(requests) : requests[i].kind = "metadata"}

\* C1: with a three-component constraint V, a successful resolution returns the
\* tarball of a version that is >= V and has V's major and minor; never one of
\* a higher minor or major series.
C1_StaysInMinorSeries ==
    (Succeeded /\ Len(packageVersion.segs) = 3) =>
        LET V == NewVersion(packageVersion)
            selected == NewVersion(tarUrl.key) IN
        /\ tarUrl.key \in Published
        /\ Compare(selected, V) >= 0
        /\ selected.segments[1] = V.segments[1]
        /\ selected.segments[2] = V.segments[2]

\* C1 witness: a resolution succeeded for a three-component constraint while a
\* version of a higher minor or major series is published.
C1_Witness ==
    /\ Succeeded /\ Len(packageVersion.segs) = 3
    /\ \E k \in WellFormed :
         LET V == NewVersion(packageVersion)
             v == NewVersion(k) IN
         \/ v.segments[1] > V.segments[1]
         \/ v.segments[1] = V.segments[1] /\ v.segments[2] > V.segments[2]

\* C2: a successful resolution returns the tarball URL stored under a published
\* version that satisfies the constraint and that no other satisfying published
\* version exceeds.
C2_HighestSatisfying ==
    Succeeded =>
        \E sel \in Satisfying :
            /\ tarUrl = npmPackgeInfo.Versions[sel].Dist.Tarball
            /\ \A k \in Satisfying : Compare(NewVersion(k), NewVersion(sel)) <= 0

\* C2 witness: a resolution succeeded where a lower published version satisfies
\* the constraint too.
C2_Witness ==
    /\ Succeeded
    /\ \E k \in Satisfying : Compare(NewVersion(k), NewVersion(tarUrl.key)) < 0

\* C3 (as claimed): with only well-formed keys and a compilable constraint,
\* resolution succeeds with the mapping's tarball URL whenever some published
\* key satisfies the constraint, whatever the spelling of the key.
C3_FailsOnlyWithoutMatch ==
    (Fetched /\ WellFormed = Published /\ Satisfying # {}) =>
        /\ findErr = Nil
        /\ \E k \in Published : tarUrl = npmPackgeInfo.Versions[k].Dist.Tarball

\* C4: a malformed key makes resolution fail with MalformedVersion, without an
\* artifact location and without an artifact request, whatever the other keys.
C4_MalformedKeyAborts ==
    (Fetched /\ WellFormed # Published) =>
        /\ findErr = "MalformedVersion"
        /\ tarUrl = EmptyTarball
        /\ ArtifactRequests = {}
        /\ packageTarFile = NoFile
        /\ pc = "returned" => err = "MalformedVersion"

\* C4 witness: DownloadPackage returned for a mapping with a malformed key and
\* a key that satisfies the constraint.
C4_Witness ==
    /\ pc = "returned" /\ Fetched
    /\ WellFormed # Published
    /\ Satisfying # {}

\* C5 (as claimed): an empty mapping fails with NoMatchingVersion for every
\* constraint string.
C5_EmptyAlwaysNoMatch ==
    (Fetched /\ Published = {}) => findErr = "NoMatchingVersion"

\* C5 (amended): an empty mapping fails with NoMatchingVersion when the
\* constraint compiles, and with MalformedConstraint when it does not.
C5_EmptyNoMatchOrBadConstraint ==
    (Fetched /\ Published = {}) =>
        findErr = IF NewConstraintFails(packageVersion)
                  THEN "MalformedConstraint" ELSE "NoMatchingVersion"

\* C5 witness: DownloadPackage returned for an empty mapping and a constraint
\* that compiles.
C5_Witness ==
    /\ pc = "returned" /\ Fetched
    /\ Published = {}
    /\ ~NewConstraintFails(packageVersion)

\* C6 (as claimed): whenever DownloadPackage returns an error, the file handle
\* it returns is nil.
C6_ErrorMeansNoFile ==
    (pc = "returned" /\ err # Nil) => packageTarFile = NoFile

\* C7 (as claimed): a repeated resolution with the same mapping and the same
\* constraint returns the same artifact location or the same failure.
C7_Deterministic ==
    [][(pc = "returned" /\ pc' = "found" /\ Fetched /\ Fetched'
          /\ name' = name /\ packageVersion' = packageVersion
          /\ npmPackgeInfo' = npmPackgeInfo)
        => (tarUrl' = tarUrl /\ findErr' = findErr)]_vars

\* C8: one metadata request, then at most one artifact request; the artifact
\* request and the temp file exist only after fetch, decode and resolution all
\* succeeded; a failure of those is returned unchanged without either.
C8_StagesInOrder ==
    /\ Cardinality(MetadataRequests) <= 1
    /\ Cardinality(ArtifactRequests) <= 1
    /\ \A i \in ArtifactRequests : \E j \in MetadataRequests : j < i
    /\ tempCreated => ArtifactRequests # {}
    /\ ArtifactRequests # {} => (Succeeded /\ pc = "returned")
    /\ (pc = "returned" /\ findErr # Nil) =>
           (err = findErr /\ ArtifactRequests = {} /\ ~tempCreated)

\* C8 witness: DownloadPackage returned after the metadata request, the
\* resolution and the artifact request, with a temp file created.
C8_Witness ==
    /\ pc = "returned"
    /\ Len(requests) = 2
    /\ tempCreated

\* C9 (as claimed): a two-component constraint V accepts exactly the published
\* versions that are >= V and of V's major series.
C9_TwoComponentExact ==
    (Fetched /\ Len(packageVersion.segs) = 2 /\ packageVersion.pre = "") =>
        \A ch \in checks :
            LET V == NewVersion(packageVersion) IN
            ch.ok <=> (Compare(ch.version, V) >= 0
                        /\ ch.version.segments[1] = V.segments[1])

\* C9 (amended): a two-component constraint V accepts exactly the published
\* versions without a pre-release tag that are >= V and of V's major series;
\* it rejects every published pre-release version.
C9_TwoComponentExactReleases ==
    (Fetched /\ Len(packageVersion.segs) = 2 /\ packageVersion.pre = "") =>
        \A ch \in checks :
            LET V == NewVersion(packageVersion) IN
            IF ch.version.pre # "" THEN ~ch.ok
            ELSE ch.ok <=> (Compare(ch.version, V) >= 0
                             /\ ch.version.segments[1] = V.segments[1])

\* C9 witness: for a two-component constraint the walk rejected a version of a
\* higher major series and accepted one of a higher minor.
C9_Witness ==
    /\ Fetched /\ Len(packageVersion.segs) = 2 /\ packageVersion.pre = ""
    /\ \E a, r \in checks :
         LET V == NewVersion(packageVersion) IN
         /\ a.ok /\ a.version.segments[2] > V.segments[2]
         /\ ~r.ok /\ r.version.segments[1] > V.segments[1]

\* C10 (as claimed): the metadata request goes to the registry URL with the
\* package name appended to its path, scheme https.
C10_NameJoinedToBase ==
    requests # <<>> =>
        requests[1].url = URL("https", registryURL.host, registryURL.path \o <<name>>)

====
